---- MODULE Spec2Model ----
(***************************************************************************)
(* Model of the asynchronous JPEG encode pump of legacy-encode.cpp:        *)
(* setup, the submit / synchronize loop, the live resolution reset with    *)
(* the surface-pool rebuild, and the cleanup sequence.  The accelerator    *)
(* (status codes, tokens, surface locks) and the file system (fopen,       *)
(* frames left in a source) are the environment and answer                 *)
(* nondeterministically.                                                   *)
(***************************************************************************)
EXTENDS Integers, Sequences, FiniteSets, TLC

\* ---- bounds of the model ----
MaxFrames == 2          \* frames held by an input file: 0..MaxFrames
MaxSurf   == 2          \* NumFrameSuggested answered by QueryIOSurf: 1..MaxSurf

\* ---- constants of the program ----
ResetAfter == 1         \* if(framenum == 1): reset after the first output
StopAfter  == 3         \* if(framenum == 3) goto end

NULL      == "NULL"
NOT_FOUND == -9         \* MFX_ERR_NOT_FOUND
NoSurface == <<0, 0>>   \* a NULL mfxFrameSurface1 pointer
NoReset   == [tried |-> FALSE, get |-> FALSE, called |-> FALSE, ok |-> FALSE]

SubmitStatus == {"NONE", "NOT_ENOUGH_BUFFER", "MORE_DATA", "DEVICE_LOST",
                 "DEVICE_BUSY", "UNKNOWN"}
SyncStatus   == {"NONE", "IN_EXECUTION", "UNKNOWN"}
SetupStages  == {"args", "source", "sink", "loader", "config", "filter",
                 "session", "query", "init", "iosurf", "alloc", "ok"}

VARIABLES
    pc,             \* position in main: start, loop, submit, sync,
                    \* reconfigure, end, exited, crashed
    sts,            \* mfxStatus sts
    syncp,          \* mfxSyncPoint syncp: 0 is NULL, else the token
    framenum, isDraining, isStillGoing, isFailed,
    nIndex,         \* int nIndex
    encSurfaceIn,   \* <<pool, index>> for &encSurfPool[index], or NoSurface
    encSurfPool,    \* 0 is NULL, else the generation of the pool
    NumFrameSuggested,  \* encRequest.NumFrameSuggested
    encodeParams,   \* frame geometry: "none", "cli" or "640x640"
    poolGeom,       \* geometry the current pool was allocated with
    source,         \* NULL, "cli" or "new"
    srcLen, srcPos, \* frames in / frames read from each input file
    outputfilename, \* k stands for frame<k>.jpg
    res,            \* resources held: sink, loader, session, accel, bitstream
    bitstream,      \* token whose output is in the buffer, 0 when empty
    Locked,         \* surfaces <<pool, index>> locked by the accelerator
    opSurf,         \* surface encoded by the operation behind syncp
    synced,         \* tokens whose synchronization returned success
    ntok,           \* tokens issued so far
    syncOk,         \* number of synchronizations that returned success
    files,          \* output files created
    sinkLog,        \* writes to the sink: [file, tok, synced]
    lastInput,      \* surface argument of the latest submit
    resetLog,       \* what the live reset did: [tried, get, called, ok]
    released,       \* cleanup steps executed, in order
    setupStop,      \* setup step that failed, "ok" when none, "none" before
    exitCode        \* <<>> while running, <<code>> once main returned

vars == <<pc, sts, syncp, framenum, isDraining, isStillGoing, isFailed,
          nIndex, encSurfaceIn, encSurfPool, NumFrameSuggested, encodeParams,
          poolGeom, source, srcLen, srcPos, outputfilename, res, bitstream,
          Locked, opSurf, synced, ntok, syncOk, files, sinkLog, lastInput,
          resetLog, released, setupStop, exitCode>>

Files == {"cli", "new"}

NoRes == [sink |-> FALSE, loader |-> FALSE, session |-> FALSE,
          accel |-> FALSE, bitstream |-> FALSE]

Init ==
    /\ pc = "start"
    /\ sts = "NONE"
    /\ syncp = 0
    /\ framenum = 0
    /\ isDraining = FALSE
    /\ isStillGoing = TRUE
    /\ isFailed = FALSE
    /\ nIndex = -1
    /\ encSurfaceIn = NoSurface
    /\ encSurfPool = 0
    /\ NumFrameSuggested = 0
    /\ encodeParams = "none"
    /\ poolGeom = "none"
    /\ source = NULL
    /\ srcLen \in [Files -> 0..MaxFrames]
    /\ srcPos = [f \in Files |-> 0]
    /\ outputfilename = 1
    /\ res = NoRes
    /\ bitstream = 0
    /\ Locked = {}
    /\ opSurf = NoSurface
    /\ synced = {}
    /\ ntok = 0
    /\ syncOk = 0
    /\ files = {}
    /\ sinkLog = <<>>
    /\ lastInput = NoSurface
    /\ resetLog = NoReset
    /\ released = <<>>
    /\ setupStop = "none"
    /\ exitCode = <<>>

\* VERIFY(x, y) of util.hpp: if (!(x)) { print y; isFailed = true; goto end; }
VERIFY(x, failedNow, pcNext) ==
    IF x THEN [isFailed |-> failedNow, pc |-> pcNext]
         ELSE [isFailed |-> TRUE, pc |-> "end"]

\* GetFreeSurfaceIndex of util.hpp: first surface whose lock flag is clear
GetFreeSurfaceIndex(pool, n) ==
    LET free == {i \in 0..(n - 1) : <<pool, i>> \notin Locked}
    IN  IF free = {} THEN NOT_FOUND
        ELSE CHOOSE i \in free : \A j \in free : i <= j

\* variant of StageSeq that creates the session before opening the files
StageSeq_SessionFirst ==
    <<"args", "loader", "config", "filter", "session", "source", "sink",
      "query", "init", "iosurf", "alloc", "ok">>

\* order of the setup steps of main; a setup run stops at the step that fails
StageSeq == <<"args", "source", "sink", "loader", "config", "filter",
              "session", "query", "init", "iosurf", "alloc", "ok">>

StageIdx(s) == CHOOSE i \in 1..Len(StageSeq) : StageSeq[i] = s

\* the step named by 'done' succeeded when setup stopped at step 'stop'
Passed(done, stop) == StageIdx(done) < StageIdx(stop)

\* lines 89-176: argument parsing up to the first allocation of the pool
Setup ==
    /\ pc = "start"
    /\ \E stop \in SetupStages, n \in 1..MaxSurf :
        /\ IF stop = "args"
              THEN /\ pc' = "exited"
                   /\ exitCode' = <<1>>
                   /\ isFailed' = isFailed
              ELSE LET v == VERIFY(stop = "ok", isFailed, "loop")
                   IN  /\ pc' = v.pc
                       /\ isFailed' = v.isFailed
                       /\ exitCode' = exitCode
        /\ setupStop' = stop
        /\ source' = IF Passed("source", stop) THEN "cli" ELSE NULL
        /\ files' = IF Passed("sink", stop) THEN {outputfilename} ELSE {}
        /\ res' = [sink      |-> Passed("sink", stop),
                   loader    |-> Passed("loader", stop),
                   session   |-> Passed("session", stop),
                   accel     |-> Passed("session", stop),
                   bitstream |-> Passed("iosurf", stop)]
        /\ encodeParams' = IF Passed("session", stop) THEN "cli" ELSE "none"
        /\ NumFrameSuggested' = IF Passed("iosurf", stop) THEN n ELSE 0
        /\ encSurfPool' = IF Passed("iosurf", stop) THEN 1 ELSE 0
        /\ poolGeom' = IF Passed("alloc", stop) THEN "cli" ELSE "none"
        /\ sts' = IF stop \in {"filter", "session", "query", "init", "iosurf"}
                     THEN "UNKNOWN"
                  ELSE IF stop = "alloc" THEN "MEMORY_ALLOC"
                  ELSE "NONE"
    /\ UNCHANGED <<syncp, framenum, isDraining, isStillGoing, nIndex,
                   encSurfaceIn, srcLen, srcPos, outputfilename, bitstream,
                   Locked, opSurf, synced, ntok, syncOk, sinkLog, lastInput,
                   resetLog, released>>

\* ReadRawFrame of util.hpp on file f: TRUE when a whole frame is left
FrameLeft(f) == f # NULL /\ srcPos[f] < srcLen[f]

\* variant of FreeIndex that scans one element past the pool
FreeIndex_OffByOne == GetFreeSurfaceIndex(encSurfPool, NumFrameSuggested + 1)

\* line 185: the free-surface search over the current pool
FreeIndex == GetFreeSurfaceIndex(encSurfPool, NumFrameSuggested)

\* lines 182-191: the loop test, then the load of a new frame when feeding.
\* With no free surface nIndex is MFX_ERR_NOT_FOUND and &encSurfPool[nIndex]
\* lies outside the pool: the read through it either faults or goes on.
LoadFrame ==
    /\ pc = "loop"
    /\ IF ~isStillGoing
          THEN /\ pc' = "end"
               /\ UNCHANGED <<nIndex, encSurfaceIn, sts, isDraining, srcPos>>
       ELSE IF isDraining
          THEN /\ pc' = "submit"
               /\ UNCHANGED <<nIndex, encSurfaceIn, sts, isDraining, srcPos>>
       ELSE LET i == FreeIndex
            IN  /\ nIndex' = i
                /\ encSurfaceIn' = <<encSurfPool, i>>
                /\ \/ /\ i = NOT_FOUND
                      /\ pc' = "crashed"
                      /\ UNCHANGED <<sts, isDraining, srcPos>>
                   \/ /\ pc' = "submit"
                      /\ IF FrameLeft(source)
                            THEN /\ srcPos' = [srcPos EXCEPT ![source] = @ + 1]
                                 /\ sts' = "NONE"
                                 /\ isDraining' = isDraining
                            ELSE /\ srcPos' = srcPos
                                 /\ sts' = "MORE_DATA"
                                 /\ isDraining' = TRUE
    /\ UNCHANGED <<syncp, framenum, isStillGoing, isFailed, encSurfPool,
                   NumFrameSuggested, encodeParams, poolGeom, source, srcLen,
                   outputfilename, res, bitstream, Locked, opSurf, synced,
                   ntok, syncOk, files, sinkLog, lastInput, resetLog,
                   released, setupStop, exitCode>>

\* x points at an element of a pool
IsSurface(x) == x[1] # 0 /\ x[2] >= 0

\* variant of SubmitInput that passes the surface also when draining
SubmitInput_NoDrainTest == encSurfaceIn

\* third argument of MFXVideoENCODE_EncodeFrameAsync (line 195)
SubmitInput == IF isDraining = TRUE THEN NoSurface ELSE encSurfaceIn

\* variant of SwitchStillGoing whose more-data branch does not test the
\* draining flag
SwitchStillGoing_NoDrainTest(st) ==
    CASE st = "NONE"              -> isStillGoing
      [] st = "NOT_ENOUGH_BUFFER" -> isStillGoing
      [] st = "MORE_DATA"         -> FALSE
      [] st = "DEVICE_LOST"       -> isStillGoing
      [] st = "DEVICE_BUSY"       -> isStillGoing
      [] OTHER                    -> FALSE

\* lines 199-256, isStillGoing after the switch on the submit status st
SwitchStillGoing(st) ==
    CASE st = "NONE"              -> isStillGoing
      [] st = "NOT_ENOUGH_BUFFER" -> isStillGoing
      [] st = "MORE_DATA"         -> IF isDraining THEN FALSE ELSE isStillGoing
      [] st = "DEVICE_LOST"       -> isStillGoing
      [] st = "DEVICE_BUSY"       -> isStillGoing
      [] OTHER                    -> FALSE

\* lines 193-256 without the synchronization loop: the accelerator answers
\* the submit with status st, with a token when tok, for the frame held in
\* surface s; the switch then dispatches on st.
SubmitWith(st, tok, s) ==
    /\ pc = "submit"
    /\ LET input == SubmitInput
           avail == Locked \cup (IF IsSurface(input) THEN {input} ELSE {})
           taken == st \in {"NONE", "MORE_DATA"} /\ IsSurface(input)
       IN  /\ tok => (st = "NONE" /\ s \in avail)
           /\ ~tok => s = NoSurface
           /\ lastInput' = input
           /\ Locked' = IF taken THEN Locked \cup {input} ELSE Locked
           /\ sts' = st
           /\ IF st = "NONE"
                 THEN /\ syncp' = IF tok THEN ntok + 1 ELSE 0
                      /\ ntok' = IF tok THEN ntok + 1 ELSE ntok
                      /\ bitstream' = IF tok THEN ntok + 1 ELSE bitstream
                      /\ opSurf' = s
                 ELSE UNCHANGED <<syncp, ntok, bitstream, opSurf>>
           /\ pc' = IF st = "NONE" /\ tok THEN "sync" ELSE "loop"
           /\ isStillGoing' = SwitchStillGoing(st)
    /\ UNCHANGED <<framenum, isDraining, isFailed, nIndex, encSurfaceIn,
                   encSurfPool, NumFrameSuggested, encodeParams, poolGeom,
                   source, srcLen, srcPos, outputfilename, res, synced,
                   syncOk, files, sinkLog, resetLog, released, setupStop,
                   exitCode>>

Surfaces == ((1..2) \X (0..MaxSurf)) \cup {NoSurface}

Submit == \E st \in SubmitStatus, tok \in BOOLEAN, s \in Surfaces :
              SubmitWith(st, tok, s)

\* variant of AfterSync without the do-while test: a warning leaves the
\* synchronization loop as a success does
AfterSync_BreakOnWarning(st) ==
    VERIFY(st \in {"NONE", "IN_EXECUTION"}, isFailed, "loop")

\* lines 229-231 with status st: the do-while test, then the VERIFY behind
\* the loop and the break
AfterSync(st) ==
    IF st = "IN_EXECUTION" THEN [isFailed |-> isFailed, pc |-> "sync"]
    ELSE VERIFY(st = "NONE", isFailed, "loop")

\* variant of StopHook without the test of line 227
StopHook_NoStop(st, n) == AfterSync(st)

\* line 227 with frame counter n, then lines 229-231
StopHook(st, n) ==
    IF n = StopAfter THEN [isFailed |-> isFailed, pc |-> "end"]
    ELSE AfterSync(st)

\* variants of Delivers: the test of line 206 written as sts >= MFX_ERR_NONE
\* (warnings pass), as sts <= MFX_ERR_NONE (errors pass), or left out
Delivers_Warnings(r) == r \in {"NONE", "IN_EXECUTION"}

Delivers_Errors(r) == r \in {"NONE", "UNKNOWN"}

Delivers_Always(r) == TRUE

\* lines 205-211: whether a synchronization that returned r delivers the
\* bitstream to the sink
Delivers(r) == r = "NONE"

\* lines 204-232: one pass of the do-while around MFXVideoCORE_SyncOperation;
\* sinkOk is the outcome of the fopen of the output file
SyncWith(r, sinkOk) ==
    /\ pc = "sync"
    /\ sts' = r
    /\ synced' = IF r = "NONE" THEN synced \cup {syncp} ELSE synced
    /\ syncOk' = IF r = "NONE" THEN syncOk + 1 ELSE syncOk
    /\ Locked' = IF r = "NONE" THEN Locked \ {opSurf} ELSE Locked
    /\ IF Delivers(r)
          THEN IF sinkOk
                  THEN /\ res' = [res EXCEPT !.sink = TRUE]
                       /\ files' = files \cup {outputfilename}
                       /\ sinkLog' = Append(sinkLog,
                                        [file   |-> outputfilename,
                                         tok    |-> bitstream,
                                         synced |-> bitstream \in synced'])
                       /\ bitstream' = 0
                       /\ framenum' = framenum + 1
                       /\ outputfilename' = framenum + 2
                       /\ IF framenum' = ResetAfter
                             THEN /\ pc' = "reconfigure"
                                  /\ isFailed' = isFailed
                             ELSE LET a == StopHook(r, framenum')
                                  IN  /\ pc' = a.pc
                                      /\ isFailed' = a.isFailed
                  ELSE /\ res' = [res EXCEPT !.sink = FALSE]
                       /\ LET v == VERIFY(sinkOk, isFailed, "sync")
                          IN  /\ pc' = v.pc
                              /\ isFailed' = v.isFailed
                       /\ UNCHANGED <<files, sinkLog, bitstream, framenum,
                                      outputfilename>>
          ELSE /\ LET a == AfterSync(r)
                  IN  /\ pc' = a.pc
                      /\ isFailed' = a.isFailed
               /\ UNCHANGED <<res, files, sinkLog, bitstream, framenum,
                              outputfilename>>
    /\ UNCHANGED <<syncp, isDraining, isStillGoing, nIndex, encSurfaceIn,
                   encSurfPool, NumFrameSuggested, encodeParams, poolGeom,
                   source, srcLen, srcPos, opSurf, ntok, lastInput, resetLog,
                   released, setupStop, exitCode>>

Sync == \E r \in SyncStatus, sinkOk \in BOOLEAN : SyncWith(r, sinkOk)

\* variant of ResetForNewResolution without the early return of line 46
ResetForNewResolution_NoEarlyReturn(getOk, resetOk) ==
    [tried |-> TRUE, get |-> getOk, called |-> TRUE, ok |-> resetOk]

\* lines 33-60, ResetForNewResolution: the reset is applied only after the
\* current parameters were retrieved; TRUE when both calls succeed
ResetForNewResolution(getOk, resetOk) ==
    IF ~getOk THEN [tried |-> TRUE, get |-> FALSE, called |-> FALSE,
                    ok |-> FALSE]
    ELSE [tried |-> TRUE, get |-> TRUE, called |-> TRUE, ok |-> resetOk]

\* lines 212-226: whether the pool is rebuilt after a reset that returned ok
\* and a surface query that returned queryOk
Rebuilds(ok, queryOk) == ok /\ queryOk

\* lines 212-231 at framenum == 1: new source, live reset, new surface
\* query, rebuild of the pool.  A successful reset makes the accelerator
\* drop the frames it had buffered.
Reconfigure ==
    /\ pc = "reconfigure"
    /\ \E srcOk, getOk, resetOk, queryOk, allocOk \in BOOLEAN,
          n \in 1..MaxSurf :
        IF ~srcOk
           THEN LET v == VERIFY(srcOk, isFailed, "reconfigure")
                IN  /\ source' = NULL
                    /\ pc' = v.pc
                    /\ isFailed' = v.isFailed
                    /\ UNCHANGED <<sts, encSurfPool, NumFrameSuggested,
                                   encodeParams, poolGeom, Locked, resetLog>>
           ELSE LET r == ResetForNewResolution(getOk, resetOk)
                IN  /\ source' = "new"
                    /\ encodeParams' = "640x640"
                    /\ resetLog' = r
                    /\ Locked' = IF r.ok THEN {} ELSE Locked
                    /\ IF Rebuilds(r.ok, queryOk)
                          THEN /\ NumFrameSuggested' = n
                               /\ encSurfPool' = encSurfPool + 1
                               /\ poolGeom' = IF allocOk THEN encodeParams'
                                              ELSE "none"
                               /\ sts' = IF allocOk THEN "NONE"
                                         ELSE "MEMORY_ALLOC"
                               /\ LET a == StopHook(sts', framenum)
                                  IN  /\ pc' = a.pc
                                      /\ isFailed' = a.isFailed
                          ELSE /\ sts' = IF r.ok THEN "UNKNOWN" ELSE sts
                               /\ LET v == VERIFY(FALSE, isFailed,
                                                  "reconfigure")
                                  IN  /\ pc' = v.pc
                                      /\ isFailed' = v.isFailed
                               /\ UNCHANGED <<encSurfPool, NumFrameSuggested,
                                              poolGeom>>
    /\ UNCHANGED <<syncp, framenum, isDraining, isStillGoing, nIndex,
                   encSurfaceIn, srcLen, srcPos, outputfilename, res,
                   bitstream, opSurf, synced, ntok, syncOk, files, sinkLog,
                   lastInput, released, setupStop, exitCode>>

Step(cond, name) == IF cond THEN <<name>> ELSE <<>>

\* FreeAcceleratorHandle of util.hpp: releases the handle when there is one
FreeAcceleratorHandle(held) == Step(held, "free_accel")

\* variant of CleanupSteps that frees the surfaces before closing the session
CleanupSteps_SurfacesFirst ==
    Step(encSurfPool # 0, "free_surfaces")
    \o Step(res.session, "close_session")
    \o Step(res.bitstream, "free_bitstream")
    \o Step(source # NULL, "fclose_source")
    \o Step(res.sink, "fclose_sink")
    \o FreeAcceleratorHandle(res.accel)
    \o Step(res.loader, "unload_loader")

\* lines 265-288: the release steps, each behind its guard
CleanupSteps ==
    Step(res.session, "close_session")
    \o Step(res.bitstream, "free_bitstream")
    \o Step(encSurfPool # 0, "free_surfaces")
    \o Step(source # NULL, "fclose_source")
    \o Step(res.sink, "fclose_sink")
    \o FreeAcceleratorHandle(res.accel)
    \o Step(res.loader, "unload_loader")

\* variant of ExitCode that returns 0 whatever happened
ExitCode_AlwaysZero(failed) == <<0>>

\* lines 290-295: the value main returns after cleanup
ExitCode(failed) == IF failed THEN <<-1>> ELSE <<0>>

\* lines 259-295: cleanup and the exit code
Cleanup ==
    /\ pc = "end"
    /\ released' = CleanupSteps
    /\ exitCode' = ExitCode(isFailed)
    /\ pc' = "exited"
    /\ UNCHANGED <<sts, syncp, framenum, isDraining, isStillGoing, isFailed,
                   nIndex, encSurfaceIn, encSurfPool, NumFrameSuggested,
                   encodeParams, poolGeom, source, srcLen, srcPos,
                   outputfilename, res, bitstream, Locked, opSurf, synced,
                   ntok, syncOk, files, sinkLog, lastInput, resetLog,
                   setupStop>>

Next == Setup \/ LoadFrame \/ Submit \/ Sync \/ Reconfigure \/ Cleanup

Spec == Init /\ [][Next]_vars

TypeOK ==
    /\ pc \in {"start", "loop", "submit", "sync", "reconfigure", "end",
               "exited", "crashed"}
    /\ framenum \in 0..StopAfter
    /\ syncp \in 0..StopAfter
    /\ encSurfPool \in 0..2
    /\ NumFrameSuggested \in 0..MaxSurf
    /\ Locked \subseteq ((1..2) \X (0..(MaxSurf - 1)))

\* ---- fairness: the pump keeps running, and the accelerator does not
\* ---- answer forever with a status that only asks to come back later
SubmitProgress ==
    \E st \in SubmitStatus \ {"DEVICE_BUSY", "NOT_ENOUGH_BUFFER"},
       tok \in BOOLEAN, s \in Surfaces :
        /\ (st = "NONE" => tok)
        /\ SubmitWith(st, tok, s)

SyncProgress ==
    \E r \in SyncStatus \ {"IN_EXECUTION"}, sinkOk \in BOOLEAN :
        SyncWith(r, sinkOk)

FairSpec ==
    /\ Init /\ [][Next]_vars
    /\ WF_vars(Next)
    /\ SF_vars(SubmitProgress)
    /\ SF_vars(SyncProgress)

\* C1: once the pump loop is entered it eventually leaves the loop (the
\* claim's "never loops forever"), when the accelerator eventually stops
\* answering device-busy and still-executing.
C1_PumpTerminates == (pc = "loop") ~> (pc \in {"end", "exited", "crashed"})

\* C2 (as claimed): in every reachable state the frame counter equals the
\* number of synchronizations that returned success.
C2_CounterEqualsSyncs == framenum = syncOk

\* C2 (amended): the frame counter equals the number of bitstreams delivered
\* to the sink; it equals the number of successful synchronizations except
\* after the output file of the last one could not be opened, which ends the
\* pump failed with that synchronization uncounted.
C2_CounterEqualsDelivered ==
    /\ framenum = Len(sinkLog)
    /\ \/ framenum = syncOk
       \/ /\ framenum + 1 = syncOk
          /\ isFailed
          /\ pc \in {"end", "exited"}

C2_Witness == pc = "exited" /\ framenum = 1 /\ syncOk = 2

\* C3: after a submit answered device-lost the loop stops (no further
\* submit is made).
C3_DeviceLostStops ==
    (pc = "loop" /\ sts = "DEVICE_LOST") => isStillGoing = FALSE

\* C4: a run whose submit was answered with an unrecognized status ends
\* failed: an error outcome distinct from normal completion.
C4_UnknownStatusFails ==
    (pc = "exited" /\ sts = "UNKNOWN") => (isFailed /\ exitCode # <<0>>)

\* C5: every bitstream written to the sink was filled under a token whose
\* synchronization had returned success when it was written.
C5_DeliveredAfterSync ==
    \A i \in 1..Len(sinkLog) : sinkLog[i].tok # 0 /\ sinkLog[i].synced

C5_Witness == Len(sinkLog) = 2 /\ sts = "NONE"

\* C6: a surface about to be submitted as input is a surface of the current
\* pool and is not locked; with every surface locked none is handed out.
C6_InputFromPoolUnlocked ==
    (pc = "submit" /\ ~isDraining) =>
        /\ IsSurface(encSurfaceIn)
        /\ encSurfaceIn[1] = encSurfPool
        /\ encSurfaceIn[2] \in 0..(NumFrameSuggested - 1)
        /\ encSurfaceIn \notin Locked

\* C7: after a submit answered device-busy the next iteration takes no new
\* frame from the source and leaves the draining flag alone.
C7_BusyRetriesSameFrame ==
    [][(pc = "loop" /\ sts = "DEVICE_BUSY")
         => (srcPos' = srcPos /\ isDraining' = isDraining)]_vars

C9_InputFromNewPool ==
    [][(pc = "submit" /\ encSurfPool = 2 /\ lastInput' # NoSurface)
         => (IsSurface(lastInput') /\ lastInput'[1] = encSurfPool)]_vars

\* C10: after a failed live reset the pump is failed and on its way through
\* cleanup (no submit or synchronization follows), the pool is not rebuilt,
\* the exit code is an error, and a failed retrieval of the current
\* parameters means the reset was never applied.
C10_FailedResetIsFatal ==
    (resetLog.tried /\ ~resetLog.ok) =>
        /\ pc \in {"end", "exited"}
        /\ isFailed
        /\ encSurfPool = 1
        /\ poolGeom = "cli"
        /\ ~resetLog.get => ~resetLog.called
        /\ pc = "exited" => (exitCode = <<-1>> /\ Len(released) > 0)

C10_Witness == pc = "exited" /\ resetLog.tried /\ ~resetLog.get

\* position of release step a in the cleanup log, 0 when it did not run
StepAt(a) ==
    IF \E i \in 1..Len(released) : released[i] = a
       THEN CHOOSE i \in 1..Len(released) : released[i] = a
       ELSE 0

Ran(a) == StepAt(a) # 0

\* C11: once cleanup has run, the encode session was closed before the
\* bitstream and the surface storage were released, the accelerator handle
\* was released after the surface storage, every resource held was
\* released, and no step ran for a resource that was never acquired.
C11_CleanupOrder ==
    (pc = "exited" /\ setupStop # "args") =>
        /\ (Ran("close_session") /\ Ran("free_bitstream"))
              => StepAt("close_session") < StepAt("free_bitstream")
        /\ (Ran("close_session") /\ Ran("free_surfaces"))
              => StepAt("close_session") < StepAt("free_surfaces")
        /\ (Ran("free_surfaces") /\ Ran("free_accel"))
              => StepAt("free_surfaces") < StepAt("free_accel")
        /\ Ran("close_session") <=> res.session
        /\ Ran("free_bitstream") <=> res.bitstream
        /\ Ran("free_surfaces") <=> encSurfPool # 0
        /\ Ran("free_accel") <=> res.accel
        /\ Ran("unload_loader") <=> res.loader

C11_Witness ==
    /\ pc = "exited"
    /\ resetLog.tried /\ ~resetLog.ok
    /\ Ran("close_session") /\ Ran("free_bitstream")
    /\ Ran("free_surfaces") /\ Ran("free_accel")

\* the loop ended the way the design calls Done: the stream was flushed
\* (more-data-needed while draining) or the frame-count hook fired
Done ==
    /\ setupStop = "ok"
    /\ \/ sts = "MORE_DATA" /\ isDraining /\ ~isStillGoing
       \/ framenum = StopAfter

\* C12: main returns 0 after a normal completion and a non-zero code when
\* argument validation or any setup step failed.
C12_ExitCodes ==
    pc = "exited" =>
        /\ Done => exitCode = <<0>>
        /\ setupStop # "ok" => exitCode \in {<<1>>, <<-1>>}
        /\ setupStop = "args" <=> exitCode = <<1>>

C12_Witness ==
    pc = "exited" /\ Done /\ isDraining /\ framenum = 2 /\ exitCode = <<0>>

\* C13: when the input file cannot be opened nothing of the accelerator is
\* ever created or called (no loader, session, handle, encoder call), the
\* pump never runs, and main returns a non-zero code.
C13_NoSessionWithoutInput ==
    setupStop = "source" =>
        /\ pc \in {"end", "exited"}
        /\ isFailed
        /\ ~res.loader /\ ~res.session /\ ~res.accel /\ ~res.bitstream
        /\ encodeParams = "none"
        /\ encSurfPool = 0
        /\ ntok = 0 /\ lastInput = NoSurface /\ ~resetLog.tried
        /\ pc = "exited" =>
              /\ exitCode = <<-1>>
              /\ ~Ran("close_session") /\ ~Ran("unload_loader")

C13_Witness == pc = "exited" /\ setupStop = "source" /\ source = NULL

\* C14: at exit of a run that got through setup the output files created
\* are exactly frame1.jpg .. frame<framenum>.jpg (none when the counter is
\* 0), and the k-th delivery went to frame<k>.jpg.
C14_OneFilePerFrame ==
    (pc = "exited" /\ setupStop = "ok") =>
        /\ files = 1..framenum
        /\ \A k \in 1..Len(sinkLog) : sinkLog[k].file = k

\* surfaces of the current pool locked by the accelerator
LockedInPool == {x \in Locked : x[1] = encSurfPool}

\* C15: the locked surfaces are surfaces of the current pool, so never more
\* than its suggested count, also after a rebuild; and the free-surface
\* search answered NONE only with every surface of the pool locked.
C15_LockedWithinPool ==
    /\ Cardinality(LockedInPool) <= NumFrameSuggested
    /\ \A x \in Locked :
          x[1] = encSurfPool /\ x[2] \in 0..(NumFrameSuggested - 1)
    /\ (pc \in {"submit", "crashed"} /\ ~isDraining /\ nIndex = NOT_FOUND)
          => Cardinality(LockedInPool) = NumFrameSuggested

C15_Witness ==
    /\ pc = "submit" /\ ~isDraining /\ nIndex = NOT_FOUND
    /\ encSurfPool = 2 /\ Cardinality(LockedInPool) = NumFrameSuggested

\* C16: a submit answered more-data-needed stops the loop exactly when the
\* pump is draining; either way the frame counter and the sink are left
\* alone, no synchronization follows, and the pump is not failed.
C16_MoreDataEndsOnlyDrain ==
    [][(pc = "submit" /\ sts' = "MORE_DATA")
         => /\ isStillGoing' = ~isDraining
            /\ pc' = "loop"
            /\ framenum' = framenum
            /\ sinkLog' = sinkLog /\ files' = files
            /\ isFailed' = isFailed /\ isDraining' = isDraining]_vars

C16_Witness ==
    pc = "loop" /\ sts = "MORE_DATA" /\ ~isDraining /\ isStillGoing
    /\ lastInput # NoSurface

\* C17: the reconfiguration is never performed while the draining flag is
\* set.
C17_ReconfigureOnlyWhenFeeding == pc = "reconfigure" => ~isDraining

\* C18: a synchronization answered still-executing is followed by another
\* wait on the same token, with no submit, no sink write and no counter
\* change; one answered with a hard error ends the pump failed, with the
\* counter and the sink untouched.
C18_SyncRetryAndFailure ==
    [][/\ (pc = "sync" /\ sts' = "IN_EXECUTION")
            => /\ pc' = "sync" /\ syncp' = syncp
               /\ ntok' = ntok /\ lastInput' = lastInput
               /\ framenum' = framenum /\ syncOk' = syncOk
               /\ sinkLog' = sinkLog /\ files' = files
               /\ isFailed' = isFailed
       /\ (pc = "sync" /\ sts' = "UNKNOWN")
            => /\ pc' = "end" /\ isFailed'
               /\ framenum' = framenum /\ syncOk' = syncOk
               /\ sinkLog' = sinkLog /\ files' = files]_vars

C18_Witness == pc = "sync" /\ sts = "IN_EXECUTION" /\ syncp = 2

\* C19: the draining flag is set exactly by a load whose read from the
\* source fails; once set it stays set, every submit passes no input
\* surface, and neither the source nor the pool is touched for input.
C19_DrainingPermanent ==
    [][/\ (pc = "loop" /\ isStillGoing /\ ~isDraining /\ pc' = "submit")
            => (isDraining' <=> ~FrameLeft(source))
       /\ (isDraining' # isDraining)
            => (pc = "loop" /\ isDraining' /\ ~FrameLeft(source))
       /\ isDraining
            => /\ isDraining'
               /\ srcPos' = srcPos
               /\ nIndex' = nIndex /\ encSurfaceIn' = encSurfaceIn
               /\ (pc = "submit" => lastInput' = NoSurface)]_vars

C19_Witness ==
    /\ pc = "loop" /\ isDraining /\ ~isStillGoing /\ sts = "MORE_DATA"
    /\ source = "new" /\ FrameLeft("new")

\* C20: the frame counter never exceeds 3, and once it is 3 the pump is in
\* cleanup or has exited (no submit or synchronization follows), not failed,
\* with exit code 0 after a cleanup that closed the session.
C20_StopAfterThree ==
    /\ framenum <= StopAfter
    /\ framenum = StopAfter =>
          /\ pc \in {"end", "exited"}
          /\ ~isFailed
          /\ Len(sinkLog) = StopAfter
          /\ pc = "exited" => (exitCode = <<0>> /\ Ran("close_session"))

C20_Witness == pc = "exited" /\ framenum = StopAfter /\ ~isDraining
====
